---- MODULE Spec2Model ----
(***************************************************************************)
(* The agent control loop of llm-agent.                                    *)
(*                                                                         *)
(*   main.py            the driver: prompt, append a user turn, run the    *)
(*                      compiled graph, catch errors; the graph's wiring   *)
(*   workflow_nodes.py  AgentState, the four nodes and route               *)
(*   tools.py           the Tool Registry and the tools                    *)
(*   llm_service.py     the Model Gateway (QwenLLM.chat)                   *)
(*                                                                         *)
(* Texts are sequences of characters, so that strip() and lower() are      *)
(* computed.  A character outside ASCII is written as its code point       *)
(* ("U+9000" "U+51FA" is the localized exit keyword).                      *)
(***************************************************************************)
EXTENDS Naturals, Sequences, FiniteSets

\* ---------------------------------------------------------------- bounds
\* Longest message history a run of the loop may build in Spec.
MaxMsgs == 6
\* Most tool-call requests the Gateway puts in one assistant turn.
MaxCalls == 2
\* Nodes run in SpecLoop's run of the tool loop.
MaxLoopSteps == 96
\* Most turns after the system turn in a state handed to route in SpecRoute.
MaxRouteMsgs == 2
\* Nodes run after the state drawn in SpecNodes.
MaxNodeSteps == 2

\* ------------------------------------------------------ program constants
\* workflow_nodes.py:102  if recursion_count >= 45
StepCeiling == 45

\* ------------------------------------------------------------------ text
UpperChars ==
    <<"A", "B", "C", "D", "E", "F", "G", "H", "I", "J", "K", "L", "M",
      "N", "O", "P", "Q", "R", "S", "T", "U", "V", "W", "X", "Y", "Z">>

LowerChars ==
    <<"a", "b", "c", "d", "e", "f", "g", "h", "i", "j", "k", "l", "m",
      "n", "o", "p", "q", "r", "s", "t", "u", "v", "w", "x", "y", "z">>

LowerChar(c) ==
    IF \E i \in 1..26 : UpperChars[i] = c
    THEN LowerChars[CHOOSE i \in 1..26 : UpperChars[i] = c]
    ELSE c

RECURSIVE Lower(_)
\* str.lower()
Lower(s) ==
    IF s = <<>> THEN <<>> ELSE <<LowerChar(Head(s))>> \o Lower(Tail(s))

IsSpace(c) == c \in {" ", "\t"}

RECURSIVE LStrip(_)
LStrip(s) ==
    IF s # <<>> /\ IsSpace(Head(s)) THEN LStrip(Tail(s)) ELSE s

RECURSIVE RStrip(_)
RStrip(s) ==
    IF s # <<>> /\ IsSpace(s[Len(s)])
    THEN RStrip(SubSeq(s, 1, Len(s) - 1))
    ELSE s

\* str.strip()
Strip(s) == RStrip(LStrip(s))

\* str.startswith('#')
StartsWithHash(s) == s # <<>> /\ Head(s) = "#"

\* The list both route and user_inquiry_node test membership in:
\* ["exit", "quit", "退出"]
ExitKeywords ==
    { <<"e", "x", "i", "t">>, <<"q", "u", "i", "t">>, <<"U+9000", "U+51FA">> }

\* user_input.lower() in ["exit", "quit", "退出"]
IsExit(s) == Lower(s) \in ExitKeywords

\* "[无输入]"
NoInputMarker == <<"[", "U+65E0", "U+8F93", "U+5165", "]">>

\* The content of the synthetic confirmation turn.
ConfirmText == <<"[", "c", "o", "n", "f", "i", "r", "m", "]">>

\* ---------------------------------------------------------------- turns
\* id 0 is a message whose id is None: add_messages has not seen it yet.
SystemMessage(c) ==
    [type |-> "system", content |-> c, tool_calls |-> <<>>,
     tool_call_id |-> <<>>, id |-> 0]

HumanMessage(c) ==
    [type |-> "human", content |-> c, tool_calls |-> <<>>,
     tool_call_id |-> <<>>, id |-> 0]

AIMessage(c, calls) ==
    [type |-> "ai", content |-> c, tool_calls |-> calls,
     tool_call_id |-> <<>>, id |-> 0]

ToolMessage(c, call_id) ==
    [type |-> "tool", content |-> c, tool_calls |-> <<>>,
     tool_call_id |-> call_id, id |-> 0]

system_message == SystemMessage(<<"s", "y", "s">>)

Last(seq) == seq[Len(seq)]

\* ------------------------------------------- the messages channel reducer
MaxId(msgs) ==
    IF msgs = <<>> THEN 0
    ELSE LET ids == {msgs[i].id : i \in 1..Len(msgs)}
         IN  CHOOSE n \in ids : \A k \in ids : k <= n

\* Every message whose id is None gets a fresh one (a uuid in the library).
AssignIds(msgs, used) ==
    [i \in 1..Len(msgs) |->
        IF msgs[i].id = 0
        THEN [msgs[i] EXCEPT
                 !.id = used + Cardinality({j \in 1..i : msgs[j].id = 0})]
        ELSE msgs[i]]

\* A message of the update whose id is already in the channel replaces that
\* message in place (the last such message stays); any other is appended.
Merge(left, right) ==
    LET left_ids == {left[i].id : i \in 1..Len(left)}
        Replacing(i) == {j \in 1..Len(right) : right[j].id = left[i].id}
        LastOf(S) == CHOOSE j \in S : \A k \in S : k <= j
    IN  [i \in 1..Len(left) |->
            IF Replacing(i) = {} THEN left[i] ELSE right[LastOf(Replacing(i))]]
        \o SelectSeq(right, LAMBDA m : m.id \notin left_ids)

\* Annotated[list[BaseMessage], add_messages]
add_messages(left, right) ==
    LET l == AssignIds(left, MaxId(left \o right))
        r == AssignIds(right, MaxId(l \o right))
    IN  Merge(l, r)

\* AgentState: the five keys of the state.
AgentState(msgs, path, count, terminate, waiting) ==
    [messages |-> msgs, project_path |-> path, recursion_count |-> count,
     should_terminate |-> terminate, is_waiting_response |-> waiting]

\* None
None == <<>>

\* The channels with no reducer: the returned messages are the new history.
ApplyUpdate_Overwrite(chan, upd) ==
    [messages |->
         IF "messages" \in DOMAIN upd THEN upd.messages ELSE chan.messages,
     project_path |->
         IF "project_path" \in DOMAIN upd
         THEN upd.project_path ELSE chan.project_path,
     recursion_count |->
         IF "recursion_count" \in DOMAIN upd
         THEN upd.recursion_count ELSE chan.recursion_count,
     should_terminate |->
         IF "should_terminate" \in DOMAIN upd
         THEN upd.should_terminate ELSE chan.should_terminate,
     is_waiting_response |->
         IF "is_waiting_response" \in DOMAIN upd
         THEN upd.is_waiting_response ELSE chan.is_waiting_response]

\* What a node returns is written to the channels: messages through its
\* reducer, every other returned key as the new value, a key that is not
\* returned left as it is.
ApplyUpdate(chan, upd) ==
    [messages |->
         IF "messages" \in DOMAIN upd
         THEN add_messages(chan.messages, upd.messages)
         ELSE chan.messages,
     project_path |->
         IF "project_path" \in DOMAIN upd
         THEN upd.project_path ELSE chan.project_path,
     recursion_count |->
         IF "recursion_count" \in DOMAIN upd
         THEN upd.recursion_count ELSE chan.recursion_count,
     should_terminate |->
         IF "should_terminate" \in DOMAIN upd
         THEN upd.should_terminate ELSE chan.should_terminate,
     is_waiting_response |->
         IF "is_waiting_response" \in DOMAIN upd
         THEN upd.is_waiting_response ELSE chan.is_waiting_response]

\* ---------------------------------------------------------------- route
\* route asking for a pending confirmation before it looks for an exit
\* keyword.
route_WaitingFirst(state) ==
    LET last_message == Last(state.messages)
    IN  IF state.is_waiting_response
        THEN "user_inquiry"
        ELSE IF last_message.type = "human" /\ IsExit(last_message.content)
        THEN "end"
        ELSE IF last_message.type = "ai"
        THEN IF Len(last_message.tool_calls) > 0
             THEN "tools"
             ELSE "user_inquiry"
        ELSE IF state.recursion_count >= StepCeiling
        THEN "require_confirmation"
        ELSE "agent"

\* route testing the step ceiling before it looks at the assistant turn.
route_CeilingFirst(state) ==
    LET last_message == Last(state.messages)
    IN  IF last_message.type = "human" /\ IsExit(last_message.content)
        THEN "end"
        ELSE IF state.is_waiting_response
        THEN "user_inquiry"
        ELSE IF state.recursion_count >= StepCeiling
        THEN "require_confirmation"
        ELSE IF last_message.type = "ai"
        THEN IF Len(last_message.tool_calls) > 0
             THEN "tools"
             ELSE "user_inquiry"
        ELSE "agent"

route(state) ==
    LET last_message == Last(state.messages)
    IN  IF last_message.type = "human" /\ IsExit(last_message.content)
        THEN "end"
        ELSE IF state.is_waiting_response
        THEN "user_inquiry"
        ELSE IF last_message.type = "ai"
        THEN IF Len(last_message.tool_calls) > 0
             THEN "tools"
             ELSE "user_inquiry"
        ELSE IF state.recursion_count >= StepCeiling
        THEN "require_confirmation"
        ELSE "agent"

\* ---------------------------------------------------------------- tools
\* Paths are sequences of components; the process works in <<"w">>.
cwd == <<"w">>

\* os.path.abspath
Abspath(p) == IF p = <<".">> THEN cwd ELSE cwd \o p

\* os.path.dirname
Dirname(p) == IF p = <<>> THEN <<>> ELSE SubSeq(p, 1, Len(p) - 1)

\* get_all_tools: create_file and run_command; get_directory_structure is
\* commented out of the list.
RegisteredTools == {"create_file", "run_command"}

\* next((t for t in tools if t.name == tool_call["name"]), None)
ToolResolves(name) == name \in RegisteredTools

\* The arguments of a tool call are [path, env]: the path argument, and what
\* the environment does with the call: "ok" (the operation succeeds),
\* "fails" (the operation raises inside the tool: permission denied, the
\* command's timeout), "malformed" (the arguments do not fit the tool's
\* schema, so invoke raises before the tool's body runs).
create_file(args) ==
    IF args.env = "ok"
    THEN [status |-> "success", message |-> "created",
          file_path |-> Abspath(args.path)]
    ELSE [status |-> "error", message |-> "create failed"]

run_command(args) ==
    IF args.env = "ok"
    THEN [status |-> "success", output |-> "out"]
    ELSE [status |-> "error", message |-> "command exception"]

\* tool_func.invoke(tool_call["args"]): the result, or the exception raised.
ToolInvoke(name, args) ==
    IF args.env = "malformed"
    THEN [raised |-> TRUE, text |-> "validation error"]
    ELSE [raised |-> FALSE,
          result |-> IF name = "create_file"
                     THEN create_file(args)
                     ELSE run_command(args)]

JsonKeys == <<"status", "message", "output", "file_path">>

RECURSIVE JsonDumpsFrom(_, _)
JsonDumpsFrom(result, i) ==
    IF i > Len(JsonKeys) THEN <<>>
    ELSE (IF JsonKeys[i] \in DOMAIN result
          THEN <<JsonKeys[i], result[JsonKeys[i]]>>
          ELSE <<>>) \o JsonDumpsFrom(result, i + 1)

\* json.dumps(result): the keys and values of the mapping, in order.
JsonDumps(result) == JsonDumpsFrom(result, 1)

\* json.loads(content).get(key, ""): the value that follows the key.
JsonGet(content, key) ==
    LET at == {i \in 1..Len(content) : i % 2 = 1 /\ content[i] = key}
    IN  IF at = {} THEN "" ELSE content[(CHOOSE i \in at : TRUE) + 1]

\* ---------------------------------------------------------------- nodes
\* agent_node testing only should_terminate before it calls the Gateway.
AgentCallsGateway_IgnoresLength(state) ==
    ~state.should_terminate

\* agent_node testing only the length of the history before it calls the
\* Gateway.
AgentCallsGateway_IgnoresTerminate(state) ==
    ~(Len(state.messages) < 2)

\* agent_node calls the Gateway unless the history is shorter than 2 turns
\* or should_terminate is set.
AgentCallsGateway(state) ==
    ~(Len(state.messages) < 2) /\ ~state.should_terminate

\* The tool_calls entry of an assistant turn in the request to the Gateway;
\* json.dumps(call["args"]) lists the arguments' keys and values.
LlmToolCall(call) ==
    [id |-> call.id, type |-> "function",
     function |-> [name |-> call.name,
                   arguments |-> <<"path", call.args.path>>]]

\* The role agent_node gives a turn of the history.
LlmRole(m) ==
    CASE m.type = "system" -> "system"
      [] m.type = "human" -> "user"
      [] m.type = "ai" -> "assistant"
      [] m.type = "tool" -> "tool"

\* The conversion with no branch for ToolMessage: tool-result turns are left
\* out of the request.
llm_messages_NoToolBranch(messages) ==
    LET kept == SelectSeq(messages, LAMBDA m : m.type # "tool")
    IN  [i \in 1..Len(kept) |->
            [role |-> LlmRole(kept[i]),
             content |-> kept[i].content,
             tool_calls |-> [k \in 1..Len(kept[i].tool_calls) |->
                                LlmToolCall(kept[i].tool_calls[k])],
             tool_call_id |-> kept[i].tool_call_id]]

\* agent_node's llm_messages: the history as it is sent to llm.chat.
llm_messages(messages) ==
    [i \in 1..Len(messages) |->
        [role |-> LlmRole(messages[i]),
         content |-> messages[i].content,
         tool_calls |-> [k \in 1..Len(messages[i].tool_calls) |->
                            LlmToolCall(messages[i].tool_calls[k])],
         tool_call_id |-> messages[i].tool_call_id]]

\* agent_node, given the assistant turn llm.chat returns.
agent_node(state, response) ==
    IF ~AgentCallsGateway(state) THEN state
    ELSE [messages |-> state.messages \o <<response>>,
          recursion_count |-> state.recursion_count + 1,
          should_terminate |-> FALSE,
          is_waiting_response |-> FALSE]

\* The except branch logging the exception and appending nothing.
OnToolExceptionSilent(acc, tool_call, text) == acc

\* The except branch of tool_node's loop.
OnToolException(acc, tool_call, text) ==
    [acc EXCEPT
        !.tool_messages = Append(@,
            ToolMessage(JsonDumps([status |-> "error", message |-> text]),
                        tool_call.id))]

\* The try branch of tool_node's loop, once invoke has returned.
OnToolResult(acc, tool_call, result) ==
    [acc EXCEPT
        !.tool_messages = Append(@, ToolMessage(JsonDumps(result), tool_call.id)),
        !.project_path = IF "file_path" \in DOMAIN result
                         THEN Dirname(result.file_path)
                         ELSE @]

\* One pass of tool_node's for loop.  acc is what the loop has built:
\* tool_messages, the project_path of the node's own copy of the state, and
\* the call ids handed to invoke so far, in order.
ToolStep(acc, tool_call) ==
    IF ~ToolResolves(tool_call.name) THEN acc
    ELSE LET r == ToolInvoke(tool_call.name, tool_call.args)
             called == [acc EXCEPT !.invoked = Append(@, tool_call.id)]
         IN  IF r.raised
             THEN OnToolException(called, tool_call, r.text)
             ELSE OnToolResult(called, tool_call, r.result)

RECURSIVE ToolLoopReversed(_, _)
\* The loop taking the requests from the last to the first.
ToolLoopReversed(acc, calls) ==
    IF calls = <<>> THEN acc
    ELSE ToolLoopReversed(ToolStep(acc, calls[Len(calls)]),
                          SubSeq(calls, 1, Len(calls) - 1))

RECURSIVE ToolLoop(_, _)
ToolLoop(acc, calls) ==
    IF calls = <<>> THEN acc
    ELSE ToolLoop(ToolStep(acc, Head(calls)), Tail(calls))

\* hasattr(last_message, "tool_calls"): only an assistant turn has them.
HasToolCalls(m) == m.type = "ai"

\* tool_node: what it returns, and the loop's record.
tool_node(state) ==
    LET last_message == Last(state.messages)
        start == [tool_messages |-> <<>>, project_path |-> state.project_path,
                  invoked |-> <<>>]
    IN  IF ~HasToolCalls(last_message)
        THEN [update |-> state, loop |-> start]
        ELSE LET done == ToolLoop(start, last_message.tool_calls)
             IN  [update |->
                      [messages |-> state.messages \o done.tool_messages,
                       recursion_count |-> state.recursion_count + 1,
                       should_terminate |-> FALSE,
                       is_waiting_response |-> FALSE],
                  loop |-> done]

\* The line read with no marker put in for an empty one.
InquiryInput_KeepsEmpty(raw, interrupt) ==
    IF interrupt THEN <<"e", "x", "i", "t">> ELSE Strip(raw)

\* The line user_inquiry_node reads: input("> ").strip(), the marker for an
\* empty line, "exit" when the wait is interrupted.
InquiryInput(raw, interrupt) ==
    IF interrupt THEN <<"e", "x", "i", "t">>
    ELSE IF Strip(raw) = <<>> THEN NoInputMarker
    ELSE Strip(raw)

\* user_inquiry_node leaving the step counter as it is.
user_inquiry_node_KeepsCount(state, raw, interrupt) ==
    LET user_input == InquiryInput(raw, interrupt)
    IN  [messages |-> state.messages \o <<HumanMessage(user_input)>>,
         recursion_count |-> state.recursion_count,
         should_terminate |-> IsExit(user_input),
         is_waiting_response |-> FALSE]

\* user_inquiry_node setting should_terminate whatever the line is.
user_inquiry_node_AlwaysTerminates(state, raw, interrupt) ==
    LET user_input == InquiryInput(raw, interrupt)
    IN  [messages |-> state.messages \o <<HumanMessage(user_input)>>,
         recursion_count |-> 0,
         should_terminate |-> TRUE,
         is_waiting_response |-> FALSE]

user_inquiry_node(state, raw, interrupt) ==
    LET user_input == InquiryInput(raw, interrupt)
    IN  [messages |-> state.messages \o <<HumanMessage(user_input)>>,
         recursion_count |-> 0,
         should_terminate |-> IsExit(user_input),
         is_waiting_response |-> FALSE]

\* require_confirmation leaving the step counter as it is.
require_confirmation_KeepsCount(state) ==
    [messages |-> <<AIMessage(ConfirmText, <<>>)>>,
     recursion_count |-> state.recursion_count,
     should_terminate |-> FALSE,
     is_waiting_response |-> TRUE]

require_confirmation(state) ==
    [messages |-> <<AIMessage(ConfirmText, <<>>)>>,
     recursion_count |-> 0,
     should_terminate |-> FALSE,
     is_waiting_response |-> TRUE]

\* ------------------------------------------------------------- the state
VARIABLES
    state,        \* main's state: the AgentState the driver holds
    pc,           \* the driver: "prompt" (input at main.py:125), "invoke"
                  \* (inside app.invoke), "done" (the while loop was left)
    chan,         \* the graph's channel values during a run; the driver's
                  \* state between runs
    node,         \* the graph: the node to run next, "route" when agent's
                  \* conditional edge is to be evaluated, "end" (END), "idle"
    supersteps,   \* nodes run in this run (what recursion_limit counts)
    llm_calls,    \* llm.chat calls made in this run
    last_node,    \* the node that ran last in this run ("none" before any)
    before,       \* len(messages) in the channel when that node started
    invoked,      \* call ids the last tool_node handed to invoke, in order
    streak,       \* completed model turns and tool executions of this run
                  \* since its last human inquiry
    exc,          \* the exception travelling up to main's try: "none",
                  \* "Exception", "KeyboardInterrupt"
    interrupted,  \* main caught KeyboardInterrupt (main.py:177)
    chat_input    \* the llm_messages of this run's last llm.chat call

vars ==
    <<state, pc, chan, node, supersteps, llm_calls, last_node, before,
      invoked, streak, exc, interrupted, chat_input>>

\* main.py:114-120
InitialState == AgentState(<<system_message>>, None, 0, FALSE, FALSE)

Init ==
    /\ state = InitialState
    /\ pc = "prompt"
    /\ chan = InitialState
    /\ node = "idle"
    /\ supersteps = 0
    /\ llm_calls = 0
    /\ last_node = "none"
    /\ before = 0
    /\ invoked = <<>>
    /\ streak = 0
    /\ exc = "none"
    /\ interrupted = FALSE
    /\ chat_input = <<>>

\* ------------------------------------------------------------- the inputs
\* Lines typed at the driver's prompt.
DriverLines ==
    { <<"h", "i">>, <<" ", "Q", "u", "i", "t", " ">>, <<"U+9000", "U+51FA">>,
      <<" ">>, <<"#", " ">>, <<"#", "f">> }

\* Lines typed at user_inquiry_node's prompt.
InquiryLines ==
    { <<"o", "k">>, <<"E", "x", "i", "t", " ">>, <<>> }

\* The text of the user turn built from an analysed file (main.py:142-148).
FileContent(file_path) == <<"[", "f", "i", "l", "e", "]">> \o file_path

\* Tool-call requests a model may make: a file created, a command that runs
\* into its timeout, a call whose arguments do not fit the schema, a tool
\* that is not registered.
CallKinds ==
    { [name |-> "create_file", args |-> [path |-> <<"a", "f.txt">>, env |-> "ok"]],
      [name |-> "run_command", args |-> [path |-> <<".">>, env |-> "fails"]],
      [name |-> "run_command", args |-> [path |-> <<".">>, env |-> "malformed"]],
      [name |-> "get_directory_structure", args |-> [path |-> <<".">>, env |-> "ok"]] }

\* QwenLLM.chat's tool_calls: name, args and the id the service gave the
\* call, unique: the position of the turn and of the call in it.
WithIds(kinds, pos) ==
    [i \in 1..Len(kinds) |->
        [name |-> kinds[i].name, args |-> kinds[i].args, id |-> <<pos, i>>]]

\* The assistant turns llm.chat may return for a history of pos - 1 turns.
Replies(pos) ==
    {AIMessage(<<"o", "k">>, <<>>)}
    \cup {AIMessage(<<>>, WithIds(kinds, pos)) :
            kinds \in UNION {[1..n -> CallKinds] : n \in 1..MaxCalls}}

\* The one reply of the tool loop: a command that succeeds.
LoopReply(pos) ==
    AIMessage(<<>>,
        WithIds(<<[name |-> "run_command",
                   args |-> [path |-> <<".">>, env |-> "ok"]]>>, pos))

\* ------------------------------------------------------------- the driver
\* app.invoke with the conditional edge evaluated first, before any node.
StartRun_EntryAtRoute(input) ==
    /\ state' = [input EXCEPT !.messages = add_messages(<<>>, input.messages)]
    /\ chan' = state'
    /\ pc' = "invoke"
    /\ node' = "route"
    /\ supersteps' = 0
    /\ llm_calls' = 0
    /\ last_node' = "none"
    /\ before' = 0
    /\ invoked' = <<>>
    /\ streak' = 0
    /\ chat_input' = <<>>
    /\ UNCHANGED <<exc, interrupted>>

\* app.invoke starts: the input is written to the channels (which gives
\* every turn its id) and the entry point is agent (main.py:45).
StartRun(input) ==
    /\ state' = [input EXCEPT !.messages = add_messages(<<>>, input.messages)]
    /\ chan' = state'
    /\ pc' = "invoke"
    /\ node' = "agent"
    /\ supersteps' = 0
    /\ llm_calls' = 0
    /\ last_node' = "none"
    /\ before' = 0
    /\ invoked' = <<>>
    /\ streak' = 0
    /\ chat_input' = <<>>
    /\ UNCHANGED <<exc, interrupted>>

\* main.py:125-127, 130-134, 152-154: a line that is empty once stripped, a
\* '#' with no path, a file that cannot be analysed: continue.
DriverSkip(raw, analysed) ==
    /\ pc = "prompt"
    /\ LET user_input == Strip(raw)
       IN  \/ user_input = <<>>
           \/ /\ StartsWithHash(user_input)
              /\ \/ Strip(Tail(user_input)) = <<>>
                 \/ ~analysed
    /\ UNCHANGED vars

\* main.py:130-151: '#path' of a file that is analysed: its content is
\* appended as a user turn, and the driver prompts again.
DriverUpload(raw, analysed) ==
    /\ pc = "prompt"
    /\ LET user_input == Strip(raw)
       IN  /\ StartsWithHash(user_input)
           /\ Strip(Tail(user_input)) # <<>>
           /\ analysed
           /\ state' = [state EXCEPT !.messages =
                  Append(@, HumanMessage(FileContent(Strip(Tail(user_input)))))]
    /\ chan' = state'
    /\ UNCHANGED <<pc, node, supersteps, llm_calls, last_node, before,
                   invoked, streak, exc, interrupted, chat_input>>

\* main.py:156-160: any other line is appended as a user turn and the graph
\* is run.
DriverInvoke(raw) ==
    /\ pc = "prompt"
    /\ LET user_input == Strip(raw)
       IN  /\ user_input # <<>>
           /\ ~StartsWithHash(user_input)
           /\ StartRun([state EXCEPT !.messages =
                  Append(@, HumanMessage(user_input))])

\* main.py:177-179: KeyboardInterrupt at the prompt.
DriverInterrupt ==
    /\ pc = "prompt"
    /\ pc' = "done"
    /\ interrupted' = TRUE
    /\ UNCHANGED <<state, chan, node, supersteps, llm_calls, last_node,
                   before, invoked, streak, exc, chat_input>>

\* main.py:161-176: the run returned: its output is the driver's state, and
\* the loop is left when should_terminate is set.
DriverReturn ==
    /\ pc = "invoke"
    /\ exc = "none"
    /\ node = "end"
    /\ state' = chan
    /\ pc' = IF chan.should_terminate THEN "done" ELSE "prompt"
    /\ node' = "idle"
    /\ UNCHANGED <<chan, supersteps, llm_calls, last_node, before, invoked,
                   streak, exc, interrupted, chat_input>>

\* main leaving its loop on any exception.
DriverExceptBreaks ==
    /\ pc = "invoke"
    /\ exc # "none"
    /\ pc' = "done"
    /\ interrupted' = (exc = "KeyboardInterrupt")
    /\ exc' = "none"
    /\ chan' = state
    /\ node' = "idle"
    /\ supersteps' = 0
    /\ llm_calls' = 0
    /\ last_node' = "none"
    /\ before' = 0
    /\ invoked' = <<>>
    /\ streak' = 0
    /\ chat_input' = <<>>
    /\ UNCHANGED state

\* main.py:177-182: the run raised.  KeyboardInterrupt leaves the loop; any
\* other exception is logged and the driver prompts again, with the state
\* it held when it called invoke.
DriverExcept ==
    /\ pc = "invoke"
    /\ exc # "none"
    /\ pc' = IF exc = "KeyboardInterrupt" THEN "done" ELSE "prompt"
    /\ interrupted' = (exc = "KeyboardInterrupt")
    /\ exc' = "none"
    /\ chan' = state
    /\ node' = "idle"
    /\ supersteps' = 0
    /\ llm_calls' = 0
    /\ last_node' = "none"
    /\ before' = 0
    /\ invoked' = <<>>
    /\ streak' = 0
    /\ chat_input' = <<>>
    /\ UNCHANGED state

\* -------------------------------------------------------------- the graph
\* A node may run: the run is on and nothing was raised.  (The runs explored
\* stay far below the recursion_limit of 1000 nodes that main.py:160 sets.)
MayRun(name) ==
    /\ pc = "invoke"
    /\ exc = "none"
    /\ node = name

\* A node ran: its update is written to the channels.
Ran(name, update) ==
    /\ chan' = ApplyUpdate(chan, update)
    /\ supersteps' = supersteps + 1
    /\ last_node' = name
    /\ before' = Len(chan.messages)

\* agent_node, llm.chat returning an assistant turn; then agent's
\* conditional edge (main.py:47-57).
AgentReply(response) ==
    /\ MayRun("agent")
    /\ AgentCallsGateway(chan)
    /\ Ran("agent", agent_node(chan, response))
    /\ llm_calls' = llm_calls + 1
    /\ chat_input' = llm_messages(chan.messages)
    /\ streak' = streak + 1
    /\ node' = "route"
    /\ UNCHANGED <<state, pc, invoked, exc, interrupted>>

\* agent_node returning the state as it is, with no call of llm.chat.
AgentNoop ==
    /\ MayRun("agent")
    /\ ~AgentCallsGateway(chan)
    /\ Ran("agent", agent_node(chan, AIMessage(<<>>, <<>>)))
    /\ node' = "route"
    /\ UNCHANGED <<state, pc, llm_calls, invoked, streak, exc, interrupted, chat_input>>

\* llm.chat raising (llm_service.py:81-83: timeout, transport error,
\* arguments that are not JSON), or the user interrupting the call: nothing
\* is written, and the exception leaves agent_node and app.invoke.
AgentRaises(what) ==
    /\ MayRun("agent")
    /\ AgentCallsGateway(chan)
    /\ llm_calls' = llm_calls + 1
    /\ chat_input' = llm_messages(chan.messages)
    /\ exc' = what
    /\ UNCHANGED <<state, pc, chan, node, supersteps, last_node, before,
                   invoked, streak, interrupted>>

\* The conditional edge of agent: route's answer names the next node.
RouteStep ==
    /\ pc = "invoke"
    /\ exc = "none"
    /\ node = "route"
    /\ node' = route(chan)
    /\ UNCHANGED <<state, pc, chan, supersteps, llm_calls, last_node, before,
                   invoked, streak, exc, interrupted, chat_input>>

\* tool_node, then the edge tools -> agent (main.py:59).
ToolNode ==
    /\ MayRun("tools")
    /\ Ran("tools", tool_node(chan).update)
    /\ invoked' = tool_node(chan).loop.invoked
    /\ streak' = streak + 1
    /\ node' = "agent"
    /\ UNCHANGED <<state, pc, llm_calls, exc, interrupted, chat_input>>

\* user_inquiry_node, then the edge user_inquiry -> agent (main.py:60).
UserInquiryNode(raw, interrupt) ==
    /\ MayRun("user_inquiry")
    /\ Ran("user_inquiry", user_inquiry_node(chan, raw, interrupt))
    /\ streak' = 0
    /\ node' = "agent"
    /\ UNCHANGED <<state, pc, llm_calls, invoked, exc, interrupted, chat_input>>

\* require_confirmation, then the edge require_confirmation -> agent
\* (main.py:61).
RequireConfirmationNode ==
    /\ MayRun("require_confirmation")
    /\ Ran("require_confirmation", require_confirmation(chan))
    /\ node' = "agent"
    /\ UNCHANGED <<state, pc, llm_calls, invoked, streak, exc, interrupted, chat_input>>

\* ------------------------------------------------------ the specifications
\* The session: histories of at most MaxMsgs turns.  A node that appends runs
\* while there is room, and an assistant turn is explored when the results
\* of its tool calls fit as well.
Room == Len(chan.messages) < MaxMsgs

Fits(response) ==
    Len(chan.messages) + 1 + Len(response.tool_calls) <= MaxMsgs

Next ==
    \/ \E raw \in DriverLines, analysed \in BOOLEAN : DriverSkip(raw, analysed)
    \/ \E raw \in DriverLines :
           Len(state.messages) < MaxMsgs /\ DriverUpload(raw, TRUE)
    \/ \E raw \in DriverLines :
           Len(state.messages) < MaxMsgs /\ DriverInvoke(raw)
    \/ DriverInterrupt
    \/ DriverReturn
    \/ DriverExcept
    \/ \E response \in Replies(Len(chan.messages) + 1) :
           Fits(response) /\ AgentReply(response)
    \/ AgentNoop
    \/ \E what \in {"Exception", "KeyboardInterrupt"} : Room /\ AgentRaises(what)
    \/ RouteStep
    \/ ToolNode
    \/ \E raw \in InquiryLines, interrupt \in BOOLEAN :
           Room /\ UserInquiryNode(raw, interrupt)

Spec == Init /\ [][Next]_vars

\* The session with its scheduling: a graph that is running runs its next
\* node, so agent_node returning without a call and the conditional edge
\* after it are taken when they can be.
SpecFair == Spec /\ WF_vars(AgentNoop) /\ WF_vars(RouteStep)

\* The tool loop: the model asks for a tool in every turn, for MaxLoopSteps
\* nodes.
LoopRoom == supersteps < MaxLoopSteps

NextLoop ==
    \/ Len(state.messages) < 2 /\ DriverInvoke(<<"h", "i">>)
    \/ LoopRoom /\ AgentReply(LoopReply(Len(chan.messages) + 1))
    \/ RouteStep
    \/ LoopRoom /\ ToolNode

SpecLoop == Init /\ [][NextLoop]_vars

\* route as a function: it is applied once to a state drawn from the turns
\* and flags below.
RouteTurns ==
    { HumanMessage(<<"h", "i">>),
      HumanMessage(<<"E", "X", "I", "T">>),
      HumanMessage(<<"U+9000", "U+51FA">>),
      HumanMessage(<<" ", "q", "u", "i", "t">>),
      AIMessage(<<"o", "k">>, <<>>),
      LoopReply(2),
      ToolMessage(JsonDumps([status |-> "success", output |-> "out"]), <<2, 1>>) }

RouteStates ==
    { AgentState(<<system_message>> \o tail, path, count, terminate, waiting) :
        tail \in UNION {[1..n -> RouteTurns] : n \in 0..MaxRouteMsgs},
        path \in {None, <<"w", "a">>},
        count \in {0, StepCeiling - 1, StepCeiling, StepCeiling + 1},
        terminate \in BOOLEAN,
        waiting \in BOOLEAN }

InitRoute ==
    /\ chan \in RouteStates
    /\ state = chan
    /\ pc = "invoke"
    /\ node = "route"
    /\ supersteps = 1
    /\ llm_calls = 0
    /\ last_node = "agent"
    /\ before = Len(chan.messages)
    /\ invoked = <<>>
    /\ streak = chan.recursion_count
    /\ exc = "none"
    /\ interrupted = FALSE
    /\ chat_input = <<>>

NextRoute == RouteStep

SpecRoute == InitRoute /\ [][NextRoute]_vars

\* The session past the step ceiling: the model asks for a tool in every
\* turn and, once recursion_count has reached the ceiling, may also answer
\* in plain text; the user then answers the inquiry, and the run goes on or
\* ends, for MaxLoopSteps nodes.
NextCeiling ==
    \/ Len(state.messages) < 2 /\ DriverInvoke(<<"h", "i">>)
    \/ LoopRoom /\ AgentReply(LoopReply(Len(chan.messages) + 1))
    \/ /\ LoopRoom
       /\ chan.recursion_count >= StepCeiling
       /\ AgentReply(AIMessage(<<"o", "k">>, <<>>))
    \/ AgentNoop
    \/ RouteStep
    \/ LoopRoom /\ ToolNode
    \/ \E raw \in InquiryLines, interrupt \in BOOLEAN :
           LoopRoom /\ UserInquiryNode(raw, interrupt)
    \/ DriverReturn

SpecCeiling == Init /\ [][NextCeiling]_vars

\* The nodes as functions of the state: a state is drawn from the histories
\* and flags below, with the driver at its prompt or the graph about to run
\* one of its four nodes, and the graph then runs MaxNodeSteps nodes along
\* its edges.
NodeHistories ==
    { <<system_message>>,
      <<system_message, HumanMessage(<<"h", "i">>)>>,
      <<system_message, HumanMessage(<<"E", "x", "i", "t">>)>>,
      <<system_message, HumanMessage(<<"h", "i">>), AIMessage(<<"o", "k">>, <<>>)>>,
      <<system_message, HumanMessage(<<"h", "i">>),
        AIMessage(<<>>, WithIds(<<[name |-> "create_file",
                                   args |-> [path |-> <<"a", "f.txt">>, env |-> "ok"]],
                                  [name |-> "run_command",
                                   args |-> [path |-> <<".">>, env |-> "fails"]]>>, 3))>>,
      <<system_message, HumanMessage(<<"h", "i">>), LoopReply(3),
        ToolMessage(JsonDumps([status |-> "success", output |-> "out"]), <<3, 1>>)>> }

\* The turns of a state the graph holds have their ids.
NodeStates ==
    { AgentState(add_messages(<<>>, history), path, count, terminate, waiting) :
        history \in NodeHistories,
        path \in {None, <<"w", "a">>},
        count \in {0, StepCeiling},
        terminate \in BOOLEAN,
        waiting \in BOOLEAN }

NodeReplies(pos) ==
    { AIMessage(<<"o", "k">>, <<>>),
      LoopReply(pos),
      AIMessage(<<>>, WithIds(<<[name |-> "run_command",
                                 args |-> [path |-> <<".">>, env |-> "fails"]],
                                [name |-> "get_directory_structure",
                                 args |-> [path |-> <<".">>, env |-> "ok"]]>>, pos)) }

InitNodes ==
    /\ chan \in NodeStates
    /\ state = chan
    /\ \/ pc = "prompt" /\ node = "idle"
       \/ /\ pc = "invoke"
          /\ node \in {"agent", "tools", "user_inquiry", "require_confirmation"}
    /\ supersteps = 0
    /\ llm_calls = 0
    /\ last_node = "none"
    /\ before = 0
    /\ invoked = <<>>
    /\ streak = 0
    /\ exc = "none"
    /\ interrupted = FALSE
    /\ chat_input = <<>>

NodeRoom == supersteps < MaxNodeSteps

NextNodes ==
    \/ Len(state.messages) < MaxMsgs /\ DriverUpload(<<"#", "f">>, TRUE)
    \/ DriverInvoke(<<"h", "i">>)
    \/ \E response \in NodeReplies(Len(chan.messages) + 1) :
           NodeRoom /\ AgentReply(response)
    \/ NodeRoom /\ AgentNoop
    \/ RouteStep
    \/ NodeRoom /\ ToolNode
    \/ \E raw \in InquiryLines, interrupt \in BOOLEAN :
           NodeRoom /\ UserInquiryNode(raw, interrupt)
    \/ NodeRoom /\ RequireConfirmationNode

SpecNodes == InitNodes /\ [][NextNodes]_vars

\* ------------------------------------------------------------- the claims
\* The user turn the driver appended for the run in progress.
DriverTurn == Last(state.messages)

\* The assistant turn the last tool_node worked on, and what it appended.
Triggering == chan.messages[before]

Appended == SubSeq(chan.messages, before + 1, Len(chan.messages))

\* The text is an exit keyword up to the case of its letters.
SameIgnoringCase(s, k) ==
    /\ Len(s) = Len(k)
    /\ \A i \in 1..Len(s) :
           \/ s[i] = k[i]
           \/ \E n \in 1..26 : LowerChars[n] = k[i] /\ UpperChars[n] = s[i]

ExitTurn(m) ==
    /\ m.type = "human"
    /\ \E k \in ExitKeywords : SameIgnoringCase(m.content, k)

\* route has answered for the state in chan.
Routed == pc = "invoke" /\ node # "route"

\* C1 (as claimed): when the driver appends a user turn that is an exit
\* keyword and runs the loop, no Gateway call is made and no tool-exec,
\* human-inquiry or limit-confirmation node runs during that run.
C1_ExitTurnEndsAtOnce ==
    (pc = "invoke" /\ ExitTurn(DriverTurn))
        => /\ llm_calls = 0
           /\ last_node \in {"none", "agent"}

\* C2: whatever step_count, should_terminate, awaiting_human_reply and
\* project_path are, route answers "end" for a state whose latest turn is a
\* user turn that is an exit keyword up to case.
C2_ExitKeywordRoutesToEnd ==
    (Routed /\ ExitTurn(Last(chan.messages))) => node = "end"

C2_Witness ==
    /\ Routed
    /\ node = "end"
    /\ Last(chan.messages).content = <<"E", "X", "I", "T">>
    /\ chan.is_waiting_response
    /\ ~chan.should_terminate
    /\ chan.recursion_count > StepCeiling
    /\ chan.project_path # None

\* C3 (as claimed): step_count never exceeds the ceiling.
C3_StepBudgetEnforced == chan.recursion_count <= StepCeiling

\* Each call id of the latest tool-calling assistant turn of msgs has exactly
\* one tool-result turn after it.
EachCallAnswered(msgs) ==
    LET asking == {i \in 1..Len(msgs) :
                      msgs[i].type = "ai" /\ Len(msgs[i].tool_calls) > 0}
    IN  asking # {} =>
            LET k == CHOOSE i \in asking : \A j \in asking : j <= i
                calls == msgs[k].tool_calls
            IN  \A c \in 1..Len(calls) :
                    Cardinality({j \in (k + 1)..Len(msgs) :
                        /\ msgs[j].type = "tool"
                        /\ msgs[j].tool_call_id = calls[c].id}) = 1

\* C4 (as claimed): when a model-turn is about to call the Gateway, every
\* tool-call request of the latest tool-calling assistant turn has exactly
\* one correlated tool-result turn after it.
C4_EveryCallAnsweredBeforeModelTurn ==
    (pc = "invoke" /\ exc = "none" /\ node = "agent" /\ AgentCallsGateway(chan))
        => EachCallAnswered(chan.messages)

\* C5: right after a tool-execution step, the turns it appended are
\* tool-result turns, as many as the requests of the triggering assistant
\* turn whose name is registered: one for each of those, none for a request
\* with another name, also when such a request comes first.
C5_OneResultPerResolvableCall ==
    last_node = "tools" =>
        LET calls == Triggering.tool_calls
            resolvable == {i \in 1..Len(calls) : calls[i].name \in RegisteredTools}
        IN  /\ Len(Appended) = Cardinality(resolvable)
            /\ \A k \in 1..Len(Appended) : Appended[k].type = "tool"
            /\ \A i \in 1..Len(calls) :
                   Cardinality({k \in 1..Len(Appended) :
                                   Appended[k].tool_call_id = calls[i].id})
                       = IF i \in resolvable THEN 1 ELSE 0

C5_Witness ==
    /\ last_node = "tools"
    /\ Len(Triggering.tool_calls) = 2
    /\ Triggering.tool_calls[1].name = "get_directory_structure"
    /\ Triggering.tool_calls[2].name = "create_file"
    /\ Len(Appended) = 1

\* C6: right after a tool-execution step, the tool-result turns it appended
\* stand in the order of their requests in the assistant turn, and the tools
\* were invoked one after the other in that same order.
C6_ResultsInRequestOrder ==
    last_node = "tools" =>
        LET calls == Triggering.tool_calls
            PosOf(id) == CHOOSE i \in 1..Len(calls) : calls[i].id = id
        IN  /\ \A k \in 1..Len(Appended) :
                   \E i \in 1..Len(calls) : calls[i].id = Appended[k].tool_call_id
            /\ \A k, l \in 1..Len(Appended) :
                   k < l => PosOf(Appended[k].tool_call_id)
                                < PosOf(Appended[l].tool_call_id)
            /\ Len(invoked) = Len(Appended)
            /\ \A k \in 1..Len(invoked) : invoked[k] = Appended[k].tool_call_id

C6_Witness ==
    /\ last_node = "tools"
    /\ Len(Appended) = 2
    /\ Appended[1].tool_call_id = Triggering.tool_calls[1].id
    /\ Appended[2].tool_call_id = Triggering.tool_calls[2].id
    /\ invoked = <<Triggering.tool_calls[1].id, Triggering.tool_calls[2].id>>

\* C7 (as claimed): right after a tool-execution step in which the invoke of
\* a request raised, that request has a tool-result turn with status "error"
\* and the exception's text, and every later request of the same assistant
\* turn was invoked and has one tool-result turn of its own.
C7_FailureLeavesSiblingsAnswered ==
    last_node = "tools" =>
        LET calls == Triggering.tool_calls
            Results(i) == {k \in 1..Len(Appended) :
                              Appended[k].tool_call_id = calls[i].id}
        IN  \A i \in 1..Len(calls) :
                (calls[i].name \in RegisteredTools /\ calls[i].args.env = "malformed")
                    => /\ \E k \in Results(i) :
                              /\ JsonGet(Appended[k].content, "status") = "error"
                              /\ JsonGet(Appended[k].content, "message") # ""
                       /\ \A j \in (i + 1)..Len(calls) :
                              /\ \E n \in 1..Len(invoked) : invoked[n] = calls[j].id
                              /\ Cardinality(Results(j)) = 1

\* C8 (as claimed): route answers "tools" for every state whose latest turn
\* is an assistant turn with one or more tool-call requests.
C8_ToolCallsRouteToTools ==
    (Routed /\ Last(chan.messages).type = "ai"
            /\ Len(Last(chan.messages).tool_calls) > 0)
        => node = "tools"

\* C8 (amended): route answers "tools", and not "user_inquiry", for every
\* state with awaiting_human_reply false whose latest turn is an assistant
\* turn with one or more tool-call requests, whatever step_count is.
C8_ToolCallsRouteToToolsUnlessAwaiting ==
    (Routed /\ Last(chan.messages).type = "ai"
            /\ Len(Last(chan.messages).tool_calls) > 0
            /\ ~chan.is_waiting_response)
        => node = "tools"

C8_Witness ==
    /\ Routed
    /\ node = "tools"
    /\ chan.recursion_count > StepCeiling
    /\ chan.should_terminate

\* C9: during a run, step_count equals the number of completed model turns
\* and tool executions since the run's last human inquiry (since the run
\* began when there was none), and right after a human inquiry it is 0.
C9_StepCounterLaw ==
    pc = "invoke" =>
        /\ chan.recursion_count = streak
        /\ last_node = "user_inquiry" => chan.recursion_count = 0

C9_Witness ==
    /\ pc = "invoke"
    /\ supersteps = 3
    /\ last_node = "agent"
    /\ chan.messages[before].type = "human"
    /\ streak = 1
    /\ chan.recursion_count = 1

\* C10: when a Gateway failure leaves the run, the driver goes back to its
\* prompt with the state it held, should_terminate not set; and the driver
\* leaves its loop only when it was interrupted or when the latest turn is a
\* user turn that is an exit keyword (should_terminate set).
C10_GatewayFailureKeepsSession ==
    [][ /\ (pc = "invoke" /\ exc = "Exception")
            => (pc' = "prompt" /\ ~state'.should_terminate /\ state' = state)
        /\ (pc # "done" /\ pc' = "done")
            => \/ interrupted'
               \/ /\ state'.should_terminate
                  /\ ExitTurn(Last(state'.messages)) ]_vars

C10_Witness ==
    /\ pc = "prompt"
    /\ ~interrupted
    /\ Len(state.messages) = 2
    /\ state.messages[2].content = <<"h", "i">>
    /\ state.messages[2].id # 0

C12_SystemTurnFirst ==
    \A held \in {chan, state} :
        /\ held.messages # <<>>
        /\ held.messages[1].type = "system"
        /\ held.messages[1].content = system_message.content

C12_Witness ==
    /\ last_node = "require_confirmation"
    /\ Len(chan.messages) >= 3
    /\ chan.messages[1].type = "system"
    /\ Last(chan.messages).content = ConfirmText

\* A history in which user and assistant turns alternate: no user turn
\* directly follows a user turn, and between two assistant turns lies a
\* user turn or a tool-result turn.
Alternating(msgs) ==
    \A i \in 1..(Len(msgs) - 1) :
        /\ ~(msgs[i].type = "human" /\ msgs[i + 1].type = "human")
        /\ ~(msgs[i].type = "ai" /\ msgs[i + 1].type = "ai")

\* C13 (as claimed): in every reachable state the history alternates, also
\* after a file upload at the driver prompt and after a run that ended in a
\* caught error.
C13_TurnsAlternate ==
    Alternating(chan.messages) /\ Alternating(state.messages)

\* The request holds the tool-result turn m.
InRequest(request, m) ==
    \E i \in 1..Len(request) :
        /\ request[i].role = "tool"
        /\ request[i].tool_call_id = m.tool_call_id
        /\ request[i].content = m.content

\* A run_command call that runs into its timeout.
TimesOut(call) == call.name = "run_command" /\ call.args.env = "fails"

\* C14: after tool_node the run is still on, should_terminate is false and
\* the node to run is agent; a run_command call that timed out has a
\* tool-result turn with status "error" under its call id; and the request of
\* the llm.chat call made next holds every tool-result turn just appended.
C14_ToolErrorReachesModel ==
    /\ [](last_node = "tools"
            => /\ pc = "invoke"
               /\ node = "agent"
               /\ ~chan.should_terminate
               /\ \A c \in 1..Len(Triggering.tool_calls) :
                      TimesOut(Triggering.tool_calls[c])
                          => \E k \in 1..Len(Appended) :
                                /\ Appended[k].type = "tool"
                                /\ Appended[k].tool_call_id =
                                       Triggering.tool_calls[c].id
                                /\ JsonGet(Appended[k].content, "status") = "error")
    /\ [][(last_node = "tools" /\ supersteps' = supersteps + 1)
              => last_node' = "agent"]_vars
    /\ [][(last_node = "tools" /\ llm_calls' > llm_calls)
              => \A k \in 1..Len(Appended) :
                     InRequest(chat_input', Appended[k])]_vars

C14_Witness ==
    /\ last_node = "agent"
    /\ \E i \in 1..Len(chat_input) :
           /\ chat_input[i].role = "tool"
           /\ JsonGet(chat_input[i].content, "status") = "error"
           /\ JsonGet(chat_input[i].content, "message") = "command exception"

\* C15: for a state whose is_waiting_response is false and whose latest turn
\* is an assistant turn with no tool calls, route answers "user_inquiry"
\* whatever recursion_count is; and it answers "require_confirmation" only
\* when recursion_count has reached the ceiling, is_waiting_response is
\* false and the latest turn is neither an exit-keyword user turn nor an
\* assistant turn.
C15_PlainAssistantTurnBeatsCeiling ==
    Routed =>
        LET last_message == Last(chan.messages)
        IN  /\ (/\ ~chan.is_waiting_response
                /\ last_message.type = "ai"
                /\ last_message.tool_calls = <<>>) => node = "user_inquiry"
            /\ node = "require_confirmation"
                   => /\ chan.recursion_count >= StepCeiling
                      /\ ~chan.is_waiting_response
                      /\ ~ExitTurn(last_message)
                      /\ last_message.type # "ai"

C15_Witness ==
    /\ Routed
    /\ node = "user_inquiry"
    /\ ~chan.is_waiting_response
    /\ Last(chan.messages).type = "ai"
    /\ Last(chan.messages).tool_calls = <<>>
    /\ chan.recursion_count >= StepCeiling

\* The turns of a are the first turns of b (ids apart: a turn gets its id
\* when it is first written to the channel).
IsPrefix(a, b) ==
    /\ Len(a) <= Len(b)
    /\ \A i \in 1..Len(a) : [a[i] EXCEPT !.id = 0] = [b[i] EXCEPT !.id = 0]

\* C16: a node that runs (agent, tools, user_inquiry, require_confirmation)
\* leaves the history it started from as a prefix of the history in the
\* channel, and the driver at its prompt leaves the history it holds as a
\* prefix of the history it holds next.
C16_HistoryAppendOnly ==
    [][/\ (supersteps' = supersteps + 1) => IsPrefix(chan.messages, chan'.messages)
       /\ (pc = "prompt") => IsPrefix(state.messages, state'.messages)]_vars

C16_Witness ==
    /\ last_node = "require_confirmation"
    /\ Len(chan.messages) = before + 1
    /\ before >= 2
    /\ chan.messages[before].type # "system"

\* C17 (as claimed): after require_confirmation the history holds the one
\* confirmation turn and nothing else, recursion_count is 0 and
\* is_waiting_response is true.
C17_ConfirmationDiscardsHistory ==
    last_node = "require_confirmation"
        => /\ Len(chan.messages) = 1
           /\ chan.messages[1].type = "ai"
           /\ chan.messages[1].content = ConfirmText
           /\ chan.recursion_count = 0
           /\ chan.is_waiting_response

\* C17 (amended): after require_confirmation the history is the history the
\* node started from followed by the one confirmation turn, an assistant
\* turn with no tool calls; recursion_count is 0, is_waiting_response is
\* true and should_terminate is false.
C17_ConfirmationAppendsTurn ==
    last_node = "require_confirmation"
        => /\ Len(chan.messages) = before + 1
           /\ before >= 1
           /\ chan.messages[1].type = "system"
           /\ Last(chan.messages).type = "ai"
           /\ Last(chan.messages).content = ConfirmText
           /\ Last(chan.messages).tool_calls = <<>>
           /\ \A i \in 1..before : chan.messages[i].content # ConfirmText
           /\ chan.recursion_count = 0
           /\ chan.is_waiting_response
           /\ ~chan.should_terminate

C17_Witness ==
    /\ last_node = "require_confirmation"
    /\ node = "agent"
    /\ Len(chan.messages) = 4
    /\ chan.messages[3].type = "ai"
    /\ chan.recursion_count = 0
    /\ chan.is_waiting_response

\* C18: whenever should_terminate is true, in the state the graph holds or
\* in the state the driver holds, the latest turn is a user turn that is an
\* exit keyword up to case; and the only step that turns should_terminate
\* from false to true is a run of user_inquiry_node.
C18_TerminateOnlyOnExitTurn ==
    /\ [](\A held \in {chan, state} :
             held.should_terminate => ExitTurn(Last(held.messages)))
    /\ [][(~chan.should_terminate /\ chan'.should_terminate)
              => /\ supersteps' = supersteps + 1
                 /\ last_node' = "user_inquiry"]_vars

C18_Witness ==
    /\ pc = "invoke"
    /\ last_node = "user_inquiry"
    /\ chan.should_terminate
    /\ Last(chan.messages).content = <<"E", "x", "i", "t">>

\* C19: when user_inquiry_node has read an exit keyword, or "exit" for an
\* interrupted wait, the user turn it appended is the latest turn and
\* should_terminate is true; from then on the run makes no llm.chat call,
\* invokes no tool and changes nothing in the state: agent_node returns,
\* route answers "end", and the driver leaves its loop; and "end" is reached.
C19_ExitAtInquiryEndsRun ==
    /\ []((pc = "invoke" /\ last_node = "user_inquiry"
              /\ ExitTurn(Last(chan.messages)))
            => /\ chan.should_terminate
               /\ Len(chan.messages) = before + 1
               /\ node = "agent")
    /\ [][(pc = "invoke" /\ chan.should_terminate)
              => /\ llm_calls' = llm_calls
                 /\ invoked' = invoked
                 /\ chan' = chan
                 /\ exc' = "none"
                 /\ \/ node = "agent" /\ node' = "route" /\ last_node' = "agent"
                    \/ node = "route" /\ node' = "end"
                    \/ node = "end" /\ pc' = "done" /\ state' = chan]_vars
    /\ (pc = "invoke" /\ chan.should_terminate) ~> (node = "end")

C19_Witness ==
    /\ pc = "invoke"
    /\ node = "end"
    /\ chan.should_terminate
    /\ Last(chan.messages).content = <<"e", "x", "i", "t">>
    /\ llm_calls = 1

\* C20: when agent_node is run on a history of fewer than 2 turns, or with
\* should_terminate true, it makes no llm.chat call and the state after it is
\* the state before it: messages, recursion_count, should_terminate,
\* is_waiting_response and project_path.
C20_AgentNoop ==
    [][(/\ pc = "invoke"
        /\ exc = "none"
        /\ node = "agent"
        /\ (Len(chan.messages) < 2 \/ chan.should_terminate))
          => /\ chan' = chan
             /\ llm_calls' = llm_calls
             /\ chat_input' = chat_input
             /\ exc' = "none"
             /\ last_node' = "agent"
             /\ node' = "route"]_vars

C20_Witness ==
    /\ last_node = "agent"
    /\ node = "route"
    /\ supersteps = 1
    /\ Len(chan.messages) = 1
    /\ ~chan.should_terminate
    /\ chan.is_waiting_response
    /\ chan.recursion_count = StepCeiling
    /\ chan.project_path = <<"w", "a">>
    /\ llm_calls = 0

\* C21: after user_inquiry_node the history is the history it started from
\* plus one user turn, whose text is the line read (never empty: the marker
\* stands for an empty line); recursion_count is 0, is_waiting_response is
\* false, and should_terminate is true exactly when that turn is an exit
\* keyword up to case.
C21_InquiryOutput ==
    last_node = "user_inquiry"
        => LET turn == Last(chan.messages)
           IN  /\ Len(chan.messages) = before + 1
               /\ turn.type = "human"
               /\ turn.content # <<>>
               /\ \E raw \in InquiryLines :
                      turn.content \in {Strip(raw), NoInputMarker, <<"e", "x", "i", "t">>}
               /\ chan.recursion_count = 0
               /\ ~chan.is_waiting_response
               /\ chan.should_terminate <=> ExitTurn(turn)

C21_Witness ==
    /\ last_node = "user_inquiry"
    /\ supersteps = 1
    /\ before = 4
    /\ Last(chan.messages).content = NoInputMarker
    /\ chan.recursion_count = 0
    /\ ~chan.should_terminate

\* The file paths the results of the last tool_node carry, in request order.
ResultPaths ==
    LET carrying == SelectSeq(Appended,
                        LAMBDA m : /\ m.type = "tool"
                                   /\ JsonGet(m.content, "status") = "success"
                                   /\ JsonGet(m.content, "file_path") # "")
    IN  [k \in 1..Len(carrying) |-> JsonGet(carrying[k].content, "file_path")]

\* C22 (as claimed): after tool_node the project_path of the state handed to
\* the next node is the directory of the file path of the last successful
\* result that carries one, and the project_path tool_node started with when
\* no result carries a file path.
C22_ProjectPathFollowsResults ==
    (pc = "invoke" /\ last_node = "tools" /\ ResultPaths # <<>>)
        => chan.project_path = Dirname(Last(ResultPaths))

C24_RoutingNeverConfirms ==
    /\ node \in {"idle", "agent", "route", "tools", "user_inquiry", "end"}
    /\ last_node \in {"none", "agent", "tools", "user_inquiry"}
    /\ node = "route"
           => /\ last_node = "agent"
              /\ route(chan) \in {"tools", "user_inquiry", "end"}
    /\ (node \in {"tools", "user_inquiry", "end"}) => last_node = "agent"
    /\ ~chan.is_waiting_response
    /\ ~state.is_waiting_response

C24_Witness ==
    /\ pc = "invoke"
    /\ node = "user_inquiry"
    /\ last_node = "agent"
    /\ chan.recursion_count > StepCeiling
    /\ Last(chan.messages).tool_calls = <<>>

\* C25 (as claimed): when a run is aborted by an exception of llm.chat and
\* the driver goes back to its prompt, the state it holds has every turn the
\* run had appended, and the recursion_count and project_path the run had
\* reached.
C25_FailureKeepsRunTurns ==
    [][(pc = "invoke" /\ exc = "Exception" /\ pc' = "prompt")
          => /\ IsPrefix(chan.messages, state'.messages)
             /\ state'.recursion_count = chan.recursion_count
             /\ state'.project_path = chan.project_path]_vars

====
